---------------------------- MODULE Spec2Model ----------------------------
(***************************************************************************)
(* Model of perfkitbenchmarker/scripts/spark_sql_runner.py.                *)
(*                                                                         *)
(* One run of the script is  main(parse_args()) : parse argv, obtain the   *)
(* Spark session, register_views (load every BigQuery table, load every    *)
(* HCFS directory, then createTempView for every entry of temp_dfs), read  *)
(* the SQL file, spark.sql(sql), show(Integer.MAX_VALUE).                  *)
(*                                                                         *)
(* Python strings are sequences of one-character strings, None is the      *)
(* empty set and a present value x is {x}.  Row counts are Java longs,     *)
(* kept as two base-2^16 digits: they exceed 32-bit integers.                *)
(***************************************************************************)
EXTENDS Integers, Sequences, FiniteSets, TLC

VARIABLES
  argv,         \* the command line: the options as given, before parsing
  dictOrdered,  \* whether the interpreter's dict iterates in insertion order
  entry,        \* "script" (main(parse_args())) or "call" (register_views called directly)
  pc,           \* position in the program
  args,         \* the parsed namespace / the arguments of register_views
  session,      \* whether SparkSession...getOrCreate() has returned a session
  i,            \* index of the for loop in progress
  temp_dfs,     \* register_views' dict, as a sequence of [key, value] in insertion order
  todo,         \* positions of temp_dfs the last for loop has not yet visited
  loads,        \* the DataFrames returned by reader.load(), in call order
  views,        \* the session's temp view namespace: a set of [name, df]
  creates,      \* the createTempView calls made, in call order
  sql,          \* the text read from the SQL file
  rows,         \* number of rows of the query's result
  printed,      \* number of rows written by show
  exit_code,    \* the process's exit status once it has exited
  failed,       \* the stage whose call raised
  trace         \* the stages entered, in order

vars == <<argv, dictOrdered, entry, pc, args, session, i, temp_dfs, todo,
          loads, views, creates, sql, rows, printed, exit_code, failed, trace>>

(***************************************************************************)
(* Bounds of the model.                                                    *)
(***************************************************************************)
\* Total number of entries of the two source lists.
MaxEntries == 3
\* How far above Integer.MAX_VALUE the result sizes tried go.
MaxOver == 1

None == {}
Some(x) == {x}
Value(o) == CHOOSE x \in o : TRUE

(***************************************************************************)
(* Strings.                                                                *)
(***************************************************************************)
\* str.split(sep) for a one-character separator: never an empty list.
RECURSIVE split(_, _)
split(string, sep) ==
  IF \A k \in 1..Len(string) : string[k] # sep
  THEN <<string>>
  ELSE LET k == CHOOSE k \in 1..Len(string) :
                  string[k] = sep /\ \A j \in 1..(k-1) : string[j] # sep
       IN <<SubSeq(string, 1, k-1)>> \o split(SubSeq(string, k+1, Len(string)), sep)

\* list[-1]
Last(list) == list[Len(list)]

\* sep.join(list): the text a list option is given as on the command line.
RECURSIVE join(_, _)
join(list, sep) ==
  IF Len(list) = 1 THEN list[1]
  ELSE list[1] \o <<sep>> \o join(SubSeq(list, 2, Len(list)), sep)

\* comma_separated_list, the type= of both list options
comma_separated_list(string) == split(string, ",")

\* As Truthy, but the test is  is not None.
IsNotNone(o) == o # None

\* Python truthiness of an optional string: None and '' are false.
Truthy(o) == o # None /\ Value(o) # <<>>

(***************************************************************************)
(* Row counts: a Java long n is [hi, lo] with n = hi * 2^16 + lo.          *)
(***************************************************************************)
Base == 2^16
\* java.lang.Integer.MAX_VALUE, the argument of show
MAX_VALUE == 2147483647

ToLong(n) == [hi |-> n \div Base, lo |-> n % Base]
LongSucc(x) == IF x.lo = Base - 1 THEN [hi |-> x.hi + 1, lo |-> 0]
                                  ELSE [hi |-> x.hi, lo |-> x.lo + 1]
LongLeq(x, y) == x.hi < y.hi \/ (x.hi = y.hi /\ x.lo <= y.lo)
RECURSIVE LongPlus(_, _)
LongPlus(x, k) == IF k = 0 THEN x ELSE LongPlus(LongSucc(x), k - 1)

\* Result sizes tried: small ones, one of them above a conventional default
\* display limit of 20 rows, and ones around Integer.MAX_VALUE.
SmallRowCounts == {0, 1, 50}
RowCounts == {ToLong(n) : n \in SmallRowCounts \cup {MAX_VALUE - 1, MAX_VALUE}}
             \cup {LongPlus(ToLong(MAX_VALUE), k) : k \in 1..MaxOver}

\* DataFrame.show(n) writes the first n rows of the result, all of them when
\* there are fewer: the number of rows written.
show(count, n) == IF LongLeq(count, ToLong(n)) THEN count ELSE ToLong(n)

(***************************************************************************)
(* The command line.                                                       *)
(***************************************************************************)
Optional(S) == {None} \cup {Some(x) : x \in S}
OptLen(o) == IF o = None THEN 0 ELSE Len(Value(o))
\* The table identifiers and directory paths tried: plain names, qualified
\* ones, a path written with a trailing '/' and the empty path.
TableIds == {<<"a">>, <<"p", ".", "a">>, <<"q", ".", "a">>, <<"p", ".", "d", ".", "b">>}
DirPaths == {<<>>, <<"a">>, <<"/", "d", "/", "a", "/">>, <<"/", "d", "/", "b">>}
ListsUpTo(S, n) == UNION {[1..k -> S] : k \in 1..n}
FormatHints == {None, Some(<<>>), Some(<<"A">>)}
ScriptPaths == {None, Some(<<"q">>)}
\* The pairs of source lists tried; None for a list that is not given.
SourceLists == {p \in Optional(ListsUpTo(TableIds, MaxEntries))
                       \X Optional(ListsUpTo(DirPaths, MaxEntries)) :
                  OptLen(p[1]) + OptLen(p[2]) <= MaxEntries}
\* A list option's text on the command line.
OptionText(o) == IF o = None THEN None ELSE Some(join(Value(o), ","))
Argvs == {[sql_script |-> s, tables |-> OptionText(p[1]), dirs |-> OptionText(p[2]),
           format |-> f] :
            s \in ScriptPaths, p \in SourceLists, f \in FormatHints}
NoArgv == [sql_script |-> None, tables |-> None, dirs |-> None, format |-> None]

\* As MutuallyExclusiveConflict, but the options are not in a group.
NoExclusiveGroup(a) == FALSE

\* The two list options are in one mutually exclusive group: giving both is
\* a usage error.  The value a type= function returns is never the default
\* object, so an option counts as given whatever its text.
MutuallyExclusiveConflict(a) == a.tables # None /\ a.dirs # None
\* The positional sql_script is required.
MissingRequired(a) == a.sql_script = None

\* The namespace parse_args returns: default=[] for a list option not given.
parse_args(a) ==
  [sql_script |-> Value(a.sql_script),
   bigquery_tables |-> IF a.tables = None THEN <<>> ELSE comma_separated_list(Value(a.tables)),
   hcfs_dirs |-> IF a.dirs = None THEN <<>> ELSE comma_separated_list(Value(a.dirs)),
   bigquery_record_format |-> a.format]
NoArgs == [sql_script |-> <<>>, bigquery_tables |-> <<>>, hcfs_dirs |-> <<>>,
           bigquery_record_format |-> None]

(***************************************************************************)
(* register_views' pieces.                                                 *)
(***************************************************************************)
\* name = table.split('.')[-1]
TableViewName(table) == Last(split(table, "."))
\* name = hcfs_dir.split('/')[-1]
DirViewName(hcfs_dir) == Last(split(hcfs_dir, "/"))

\* The options of the reader built for a table: 'table', and 'readDataFormat'
\* when bigquery_record_format is truthy.
BigQueryOptions(table, bigquery_record_format) ==
  {<<"table", table>>} \cup
  (IF Truthy(bigquery_record_format)
   THEN {<<"readDataFormat", Value(bigquery_record_format)>>} ELSE {})

\* As DictSet, but a key already present keeps its first value (setdefault).
DictSetKeepFirst(d, name, df) ==
  IF \E k \in 1..Len(d) : d[k].key = name
  THEN d
  ELSE Append(d, [key |-> name, value |-> df])

\* temp_dfs[name] = df on a dict kept in insertion order: an existing key
\* keeps its position and takes the new value.
DictSet(d, name, df) ==
  IF \E k \in 1..Len(d) : d[k].key = name
  THEN [k \in 1..Len(d) |-> IF d[k].key = name THEN [key |-> name, value |-> df] ELSE d[k]]
  ELSE Append(d, [key |-> name, value |-> df])

\* As NextItems, but the dict is walked from its newest entry to its oldest.
NextItemsNewestFirst(left) ==
  IF dictOrdered THEN {k \in left : \A j \in left : j <= k} ELSE left

\* The positions temp_dfs.items() may yield next: the first one left when the
\* dict iterates in insertion order, any one left otherwise.
NextItems(left) ==
  IF dictOrdered THEN {k \in left : \A j \in left : k <= j} ELSE left

ViewNames == {v.name : v \in views}
(***************************************************************************)
(* The initial states.                                                     *)
(***************************************************************************)
Blank ==
  /\ dictOrdered \in BOOLEAN
  /\ session = FALSE
  /\ i = 1
  /\ temp_dfs = <<>>
  /\ todo = {}
  /\ loads = <<>>
  /\ views = {}
  /\ creates = <<>>
  /\ sql = None
  /\ rows = None
  /\ printed = None
  /\ exit_code = None
  /\ failed = None
  /\ trace = <<>>

\* The script is started with some command line.
Init ==
  /\ entry = "script"
  /\ argv \in Argvs
  /\ args = NoArgs
  /\ pc = "start"
  /\ Blank

\* register_views is called with any two lists and any format hint.
InitCall ==
  /\ entry = "call"
  /\ argv = NoArgv
  /\ \E p \in SourceLists, f \in FormatHints :
       args = [sql_script |-> <<>>,
               bigquery_tables |-> IF p[1] = None THEN <<>> ELSE Value(p[1]),
               hcfs_dirs |-> IF p[2] = None THEN <<>> ELSE Value(p[2]),
               bigquery_record_format |-> f]
  /\ pc = "call_register"
  /\ Blank

(***************************************************************************)
(* The steps.                                                              *)
(***************************************************************************)
\* An exception nothing catches: the script ends with status 1; a direct
\* call of register_views passes it to its caller.
Raise(stage) ==
  /\ failed' = Some(stage)
  /\ IF entry = "script"
     THEN pc' = "exited" /\ exit_code' = Some(1)
     ELSE pc' = "raised" /\ exit_code' = exit_code

\* parse_args(): a usage error ends the process with status 2.
ParseArgs ==
  /\ pc = "start"
  /\ trace' = Append(trace, "parse")
  /\ IF MutuallyExclusiveConflict(argv) \/ MissingRequired(argv)
     THEN /\ pc' = "exited"
          /\ exit_code' = Some(2)
          /\ failed' = Some("parse")
          /\ args' = args
     ELSE /\ pc' = "main"
          /\ args' = parse_args(argv)
          /\ UNCHANGED <<exit_code, failed>>
  /\ UNCHANGED <<argv, dictOrdered, entry, session, i, temp_dfs, todo, loads,
                 views, creates, sql, rows, printed>>

\* spark = SparkSession.builder.appName(...).getOrCreate()
GetOrCreate ==
  /\ pc = "main"
  /\ trace' = Append(trace, "session")
  /\ \E ok \in BOOLEAN :
       IF ok THEN session' = TRUE /\ pc' = "call_register" /\ UNCHANGED <<exit_code, failed>>
             ELSE session' = session /\ Raise("session")
  /\ UNCHANGED <<argv, dictOrdered, entry, args, i, temp_dfs, todo, loads,
                 views, creates, sql, rows, printed>>

\* register_views(...) is entered: temp_dfs = {}
EnterRegisterViews ==
  /\ pc = "call_register"
  /\ trace' = Append(trace, "register")
  /\ temp_dfs' = <<>>
  /\ i' = 1
  /\ pc' = "tables"
  /\ UNCHANGED <<argv, dictOrdered, entry, args, session, todo, loads, views,
                 creates, sql, rows, printed, exit_code, failed>>

\* One turn of  for table in bigquery_tables
LoadTable ==
  /\ pc = "tables"
  /\ i <= Len(args.bigquery_tables)
  /\ LET table == args.bigquery_tables[i]
         name == TableViewName(table)
         df == [id |-> Len(loads) + 1, format |-> "bigquery",
                options |-> BigQueryOptions(table, args.bigquery_record_format),
                path |-> None]
     IN \E ok \in BOOLEAN :
          IF ok THEN /\ loads' = Append(loads, df)
                     /\ temp_dfs' = DictSet(temp_dfs, name, df)
                     /\ i' = i + 1
                     /\ UNCHANGED <<pc, exit_code, failed>>
                ELSE /\ Raise("register")
                     /\ UNCHANGED <<loads, temp_dfs, i>>
  /\ UNCHANGED <<argv, dictOrdered, entry, args, session, todo, views, creates,
                 sql, rows, printed, trace>>

\* The loop over bigquery_tables ends and the one over hcfs_dirs begins.
TablesDone ==
  /\ pc = "tables"
  /\ i > Len(args.bigquery_tables)
  /\ pc' = "dirs"
  /\ i' = 1
  /\ UNCHANGED <<argv, dictOrdered, entry, args, session, temp_dfs, todo, loads,
                 views, creates, sql, rows, printed, exit_code, failed, trace>>

\* As LoadDir, but the view is created as soon as the directory is loaded.
LoadDirEager ==
  /\ pc = "dirs"
  /\ i <= Len(args.hcfs_dirs)
  /\ LET hcfs_dir == args.hcfs_dirs[i]
         name == Last(split(hcfs_dir, "/"))
         df == [id |-> Len(loads) + 1, format |-> "parquet", options |-> {},
                path |-> Some(hcfs_dir)]
     IN \E ok \in BOOLEAN :
          IF ok THEN /\ loads' = Append(loads, df)
                     /\ temp_dfs' = temp_dfs
                     /\ views' = {v \in views : v.name # name} \cup {[name |-> name, df |-> df]}
                     /\ creates' = Append(creates, [name |-> name, df |-> df])
                     /\ i' = i + 1
                     /\ UNCHANGED <<pc, exit_code, failed>>
                ELSE /\ Raise("register")
                     /\ UNCHANGED <<loads, temp_dfs, i, views, creates>>
  /\ UNCHANGED <<argv, dictOrdered, entry, args, session, todo, sql, rows,
                 printed, trace>>

\* One turn of  for hcfs_dir in hcfs_dirs
LoadDir ==
  /\ pc = "dirs"
  /\ i <= Len(args.hcfs_dirs)
  /\ LET hcfs_dir == args.hcfs_dirs[i]
         name == DirViewName(hcfs_dir)
         df == [id |-> Len(loads) + 1, format |-> "parquet", options |-> {},
                path |-> Some(hcfs_dir)]
     IN \E ok \in BOOLEAN :
          IF ok THEN /\ loads' = Append(loads, df)
                     /\ temp_dfs' = DictSet(temp_dfs, name, df)
                     /\ i' = i + 1
                     /\ UNCHANGED <<pc, exit_code, failed>>
                ELSE /\ Raise("register")
                     /\ UNCHANGED <<loads, temp_dfs, i>>
  /\ UNCHANGED <<argv, dictOrdered, entry, args, session, todo, views, creates,
                 sql, rows, printed, trace>>

\* As DirsDone, but the walk over temp_dfs misses its first entry.
DirsDoneSkipFirst ==
  /\ pc = "dirs"
  /\ i > Len(args.hcfs_dirs)
  /\ pc' = "views"
  /\ todo' = 2..Len(temp_dfs)
  /\ UNCHANGED <<argv, dictOrdered, entry, args, session, i, temp_dfs, loads,
                 views, creates, sql, rows, printed, exit_code, failed, trace>>

\* The loop over hcfs_dirs ends and the one over temp_dfs.items() begins.
DirsDone ==
  /\ pc = "dirs"
  /\ i > Len(args.hcfs_dirs)
  /\ pc' = "views"
  /\ todo' = 1..Len(temp_dfs)
  /\ UNCHANGED <<argv, dictOrdered, entry, args, session, i, temp_dfs, loads,
                 views, creates, sql, rows, printed, exit_code, failed, trace>>

\* One turn of  for name, df in temp_dfs.items(): df.createTempView(name).
\* The session refuses a name it already holds, and may fail otherwise.
CreateTempView ==
  /\ pc = "views"
  /\ \E k \in NextItems(todo) :
       LET view == [name |-> temp_dfs[k].key, df |-> temp_dfs[k].value]
       IN \E ok \in BOOLEAN :
            IF ok /\ view.name \notin ViewNames
            THEN /\ views' = views \cup {view}
                 /\ creates' = Append(creates, view)
                 /\ todo' = todo \ {k}
                 /\ UNCHANGED <<pc, exit_code, failed>>
            ELSE /\ Raise("register")
                 /\ UNCHANGED <<views, creates, todo>>
  /\ UNCHANGED <<argv, dictOrdered, entry, args, session, i, temp_dfs, loads,
                 sql, rows, printed, trace>>

\* As ReturnFromRegisterViews, but from inside the loop over temp_dfs.
ReturnInsideLoop ==
  /\ pc = "views"
  /\ pc' = IF entry = "script" THEN "read" ELSE "returned"
  /\ UNCHANGED <<argv, dictOrdered, entry, args, session, i, temp_dfs, todo,
                 loads, views, creates, sql, rows, printed, exit_code, failed, trace>>

\* register_views returns.
ReturnFromRegisterViews ==
  /\ pc = "views"
  /\ todo = {}
  /\ pc' = IF entry = "script" THEN "read" ELSE "returned"
  /\ UNCHANGED <<argv, dictOrdered, entry, args, session, i, temp_dfs, todo,
                 loads, views, creates, sql, rows, printed, exit_code, failed, trace>>
\* with open(args.sql_script) as f: sql = f.read()
Queries == {"SELECT 1"}
ReadQuery ==
  /\ pc = "read"
  /\ trace' = Append(trace, "read")
  /\ \E text \in Optional(Queries) :
       IF text # None THEN sql' = text /\ pc' = "execute" /\ UNCHANGED <<exit_code, failed>>
                      ELSE sql' = sql /\ Raise("read")
  /\ UNCHANGED <<argv, dictOrdered, entry, args, session, i, temp_dfs, todo,
                 loads, views, creates, rows, printed>>

\* spark.sql(sql): the session runs the text and answers with a result of
\* some size, or raises.
ExecuteQuery ==
  /\ pc = "execute"
  /\ trace' = Append(trace, "execute")
  /\ \E result \in Optional(RowCounts) :
       IF result # None THEN rows' = result /\ pc' = "show" /\ UNCHANGED <<exit_code, failed>>
                        ELSE rows' = rows /\ Raise("execute")
  /\ UNCHANGED <<argv, dictOrdered, entry, args, session, i, temp_dfs, todo,
                 loads, views, creates, sql, printed>>

\* .show(spark._jvm.java.lang.Integer.MAX_VALUE), after which main returns
\* and the process ends with status 0.
Show ==
  /\ pc = "show"
  /\ trace' = Append(trace, "print")
  /\ \E ok \in BOOLEAN :
       IF ok THEN /\ printed' = Some(show(Value(rows), MAX_VALUE))
                  /\ pc' = "exited"
                  /\ exit_code' = Some(0)
                  /\ failed' = failed
             ELSE printed' = printed /\ Raise("print")
  /\ UNCHANGED <<argv, dictOrdered, entry, args, session, i, temp_dfs, todo,
                 loads, views, creates, sql, rows>>

\* The steps of register_views.
RegisterViews ==
  \/ EnterRegisterViews
  \/ LoadTable
  \/ TablesDone
  \/ LoadDir
  \/ DirsDone
  \/ CreateTempView
  \/ ReturnFromRegisterViews

\* A run of the script.
Next ==
  \/ ParseArgs
  \/ GetOrCreate
  \/ RegisterViews
  \/ ReadQuery
  \/ ExecuteQuery
  \/ Show

Spec == Init /\ [][Next]_vars

\* A direct call of register_views.
SpecCall == InitCall /\ [][RegisterViews]_vars
(***************************************************************************)
(* Vocabulary of the properties.                                           *)
(***************************************************************************)
Max(S) == CHOOSE x \in S : \A y \in S : y <= x
Min(S) == CHOOSE x \in S : \A y \in S : x <= y
IsPrefix(s, t) == Len(s) <= Len(t) /\ \A k \in 1..Len(s) : s[k] = t[k]
Stages(t) == {t[k] : k \in 1..Len(t)}

\* The sources in processing order: the tables in list order, then the
\* directories in list order.
NTables == Len(args.bigquery_tables)
NSources == Len(args.bigquery_tables) + Len(args.hcfs_dirs)
Source(j) == IF j <= NTables THEN args.bigquery_tables[j]
                             ELSE args.hcfs_dirs[j - NTables]
IsTable(j) == j <= NTables

\* The text of s after its last sep; s itself when it holds none.
AfterLast(s, sep) ==
  LET at == {k \in 1..Len(s) : s[k] = sep}
  IN IF at = {} THEN s ELSE SubSeq(s, Max(at) + 1, Len(s))
\* s without the separators it ends with.
RECURSIVE StripTrailing(_, _)
StripTrailing(s, sep) ==
  IF s # <<>> /\ s[Len(s)] = sep THEN StripTrailing(SubSeq(s, 1, Len(s) - 1), sep) ELSE s

\* The name source j gets: the text after its last separator.
SourceName(j) == AfterLast(Source(j), IF IsTable(j) THEN "." ELSE "/")
SourceNames == {SourceName(j) : j \in 1..NSources}
\* The last and the first source that gets name n.
LastSource(n) == Max({j \in 1..NSources : SourceName(j) = n})
FirstSource(n) == Min({j \in 1..NSources : SourceName(j) = n})
Collision == \E j, k \in 1..NSources : j # k /\ SourceName(j) = SourceName(k)

\* df is what loading source j gives.
LoadOf(df, j) ==
  /\ df.id = j
  /\ IF IsTable(j) THEN df.format = "bigquery" /\ <<"table", Source(j)>> \in df.options
                   ELSE df.format = "parquet" /\ df.path = Some(Source(j))

\* register_views has returned.
RegisterDone ==
  \/ pc \in {"read", "execute", "show", "returned"}
  \/ pc = "exited" /\ failed \in {None, Some("read"), Some("execute"), Some("print")}
(***************************************************************************)
(* C1.  When several sources derive the same view name, then once          *)
(* register_views has returned exactly one view exists under that name,    *)
(* created once, and it is bound to the DataFrame loaded from the last of  *)
(* those sources in processing order (tables in list order, then           *)
(* directories in list order): no merge.  The collision causes no error:   *)
(* createTempView is never about to be called with a name the session      *)
(* already holds.                                                          *)
(***************************************************************************)
C1_LastSourceWins ==
  /\ RegisterDone =>
       \A n \in SourceNames :
         /\ {v \in views : v.name = n} = {[name |-> n, df |-> loads[LastSource(n)]]}
         /\ LoadOf(loads[LastSource(n)], LastSource(n))
         /\ Cardinality({c \in 1..Len(creates) : creates[c].name = n}) = 1
  /\ pc = "views" => \A k \in todo : temp_dfs[k].key \notin ViewNames

\* A table and a directory derived the same name and register_views returned.
C1_Witness ==
  /\ pc = "returned"
  /\ \E j, k \in 1..NSources :
       IsTable(j) /\ ~IsTable(k) /\ SourceName(j) = SourceName(k) /\ SourceName(j) # <<>>

(***************************************************************************)
(* C10.  Every source is loaded exactly once, in processing order, and     *)
(* all loads are done before the first view is created; so when a load     *)
(* fails the session's view namespace is as it was before the call.        *)
(***************************************************************************)
C10_LoadsBeforeViews ==
  /\ Len(loads) <= NSources
  /\ \A j \in 1..Len(loads) : LoadOf(loads[j], j)
  /\ (creates # <<>> \/ views # {}) => Len(loads) = NSources
  /\ RegisterDone => Len(loads) = NSources
  /\ (failed = Some("register") /\ Len(loads) < NSources) => views = {} /\ creates = <<>>

\* The tables were loaded, the load of a directory failed, and no view exists.
C10_Witness ==
  /\ pc = "raised"
  /\ 0 < NTables
  /\ NTables <= Len(loads)
  /\ Len(loads) < NSources
  /\ views = {}
\* In the sequence of createTempView calls no directory view comes before a
\* table view, and two views of one group come in the order of their sources.
CreatedInSourceOrder ==
  \A c, d \in 1..Len(creates) :
    c < d =>
      /\ ~(~IsTable(creates[c].df.id) /\ IsTable(creates[d].df.id))
      /\ IsTable(creates[c].df.id) = IsTable(creates[d].df.id)
           => creates[c].df.id < creates[d].df.id

(***************************************************************************)
(* C2 as stated.  In the sequence of createTempView calls every table      *)
(* view comes before every directory view, and within each group the       *)
(* views are created in the order of their sources in the input list,      *)
(* also when several sources derive the same name.  Stated for the cases   *)
(* most favourable to it: an interpreter whose dict iterates in insertion  *)
(* order, and sources none of which derives the empty name.                *)
(***************************************************************************)
C2_SourceOrderAlways ==
  (dictOrdered /\ <<>> \notin SourceNames) => CreatedInSourceOrder

(***************************************************************************)
(* C2 amended.  On an interpreter whose dict iterates in insertion order,  *)
(* createTempView is called in the order in which the names were first     *)
(* derived (tables in list order, then directories in list order): a name  *)
(* derived again keeps the place of its first source.  So table views      *)
(* come before directory views, each group in list order, whenever no two  *)
(* sources derive the same name.                                           *)
(***************************************************************************)
C2_FirstDerivedOrder ==
  dictOrdered =>
    /\ \A c, d \in 1..Len(creates) :
         c < d => FirstSource(creates[c].name) < FirstSource(creates[d].name)
    /\ ~Collision => CreatedInSourceOrder

\* Insertion-ordered dict, a name derived twice with another name first
\* derived in between, and all views created.
C2_Witness ==
  /\ dictOrdered
  /\ pc = "returned"
  /\ \E j, k, l \in 1..NSources :
       /\ j < k /\ k < l
       /\ SourceName(j) = <<"a">> /\ SourceName(k) = <<"b">> /\ SourceName(l) = <<"a">>
(***************************************************************************)
(* C3.  When both --bigquery-tables and --hcfs-dirs are given the run      *)
(* ends in argument parsing with a usage error (status 2) and no session   *)
(* is created; so in every run that reaches session creation at most one   *)
(* of the two source lists is non-empty.                                   *)
(***************************************************************************)
C3_ExclusiveSources ==
  /\ (argv.tables # None /\ argv.dirs # None) =>
       /\ ~session
       /\ "session" \notin Stages(trace)
       /\ pc = "start" \/ (pc = "exited" /\ exit_code = Some(2) /\ trace = <<"parse">>)
  /\ "session" \in Stages(trace) =>
       args.bigquery_tables = <<>> \/ args.hcfs_dirs = <<>>

\* Both options were given, with the SQL file, and the run has ended with
\* the usage error.
C3_Witness ==
  /\ argv.sql_script # None
  /\ argv.tables = Some(<<"p", ".", "a">>)
  /\ argv.dirs = Some(<<"/", "d", "/", "b">>)
  /\ pc = "exited"
  /\ exit_code = Some(2)

(***************************************************************************)
(* C4.  The print step never truncates: whatever the number of rows of     *)
(* the result, the number of rows printed equals it.                       *)
(***************************************************************************)
C4_NeverTruncates == printed # None => Value(printed) = Value(rows)

(***************************************************************************)
(* C5.  An error raised while registering views, reading the query file    *)
(* or executing the query is fatal: the run ends with a non-zero status,   *)
(* the failing stage was entered once and is the last one entered, and no  *)
(* row is printed; status 0 is reached only after all rows of the result   *)
(* have been printed.                                                      *)
(***************************************************************************)
C5_ErrorsAreFatal ==
  /\ failed \in {Some("register"), Some("read"), Some("execute")} =>
       /\ pc = "exited"
       /\ exit_code \notin {None, Some(0)}
       /\ trace[Len(trace)] = Value(failed)
       /\ Cardinality({k \in 1..Len(trace) : trace[k] = Value(failed)}) = 1
       /\ printed = None
  /\ exit_code = Some(0) => printed # None /\ Value(printed) = Value(rows)

StageOrder == <<"parse", "session", "register", "read", "execute", "print">>
AllViewsRegistered == ViewNames = SourceNames /\ todo = {} /\ Len(loads) = NSources

(***************************************************************************)
(* C6.  A run enters its stages in the order parse, session, register,     *)
(* read, execute, print, each at most once, and exits with status 0 only   *)
(* after all of them: the query file is not read before every configured   *)
(* view is registered, the query is not executed before that and before    *)
(* the file is read, and nothing is printed before the query is executed.  *)
(***************************************************************************)
C6_StagesInOrder ==
  /\ IsPrefix(trace, StageOrder)
  /\ "read" \in Stages(trace) => AllViewsRegistered
  /\ sql # None => "read" \in Stages(trace)
  /\ "execute" \in Stages(trace) => AllViewsRegistered /\ sql # None
  /\ rows # None => "execute" \in Stages(trace)
  /\ "print" \in Stages(trace) => rows # None
  /\ printed # None => "print" \in Stages(trace)
  /\ exit_code = Some(0) => trace = StageOrder /\ printed # None

\* A run with two views went through every stage and exited with status 0.
C6_Witness ==
  /\ exit_code = Some(0)
  /\ ViewNames = {<<"a">>, <<"b">>}

(***************************************************************************)
(* C7.  The views register_views creates are exactly those of the names    *)
(* derived from the configured sources: never a view of another name,      *)
(* never a name created twice, and once it has returned no derived name    *)
(* is missing.  With no data-source option no view is created.             *)
(***************************************************************************)
C7_ExactlyDerivedNames ==
  /\ \A c \in 1..Len(creates) : creates[c].name \in SourceNames
  /\ \A c, d \in 1..Len(creates) : c # d => creates[c].name # creates[d].name
  /\ ViewNames = {creates[c].name : c \in 1..Len(creates)}
  /\ RegisterDone => ViewNames = SourceNames
  /\ (argv.tables = None /\ argv.dirs = None) => views = {} /\ creates = <<>>

\* register_views returned in a run with three sources deriving two names.
C7_Witness ==
  /\ RegisterDone
  /\ entry = "script"
  /\ NSources = 3
  /\ ViewNames = {<<"a">>, <<"b">>}

\* The table a bigquery DataFrame was loaded from.
TableOf(df) == (CHOOSE o \in df.options : o[1] = "table")[2]

(***************************************************************************)
(* C8.  Every source's view name is the final component of its             *)
(* identifier: for a table the text after the last '.', for a directory    *)
(* the last directory name of the path, also when the path is written      *)
(* with a trailing '/'; an identifier without separator names itself.      *)
(***************************************************************************)
C8_FinalComponent ==
  \A k \in 1..Len(temp_dfs) :
    LET df == temp_dfs[k].value
    IN temp_dfs[k].key =
         IF df.format = "bigquery"
         THEN AfterLast(TableOf(df), ".")
         ELSE AfterLast(StripTrailing(Value(df.path), "/"), "/")

HasOption(df, key) == \E o \in df.options : o[1] = key

(***************************************************************************)
(* C9 as stated.  Whenever a record-format hint is given, the empty        *)
(* string included, every table is loaded with option readDataFormat set   *)
(* to it; when none is given no load carries the option; a directory load  *)
(* never carries it.                                                       *)
(***************************************************************************)
C9_AnyHintPassed ==
  \A j \in 1..Len(loads) :
    IF loads[j].format = "bigquery" /\ argv.format # None
    THEN <<"readDataFormat", Value(argv.format)>> \in loads[j].options
    ELSE ~HasOption(loads[j], "readDataFormat")

(***************************************************************************)
(* C9 amended.  Whenever a non-empty record-format hint is given, every    *)
(* table is loaded with option readDataFormat set to it; when none is      *)
(* given, or the one given is the empty string, no load carries the        *)
(* option; a directory load never carries it.                              *)
(***************************************************************************)
C9_NonEmptyHintPassed ==
  \A j \in 1..Len(loads) :
    IF loads[j].format = "bigquery" /\ argv.format # None /\ Value(argv.format) # <<>>
    THEN {o \in loads[j].options : o[1] = "readDataFormat"}
           = {<<"readDataFormat", Value(argv.format)>>}
    ELSE ~HasOption(loads[j], "readDataFormat")

\* A table was loaded in a run given a non-empty hint.
C9_Witness ==
  /\ argv.format = Some(<<"A">>)
  /\ \E j \in 1..Len(loads) :
       /\ loads[j].format = "bigquery"
       /\ <<"table", <<"p", ".", "a">>>> \in loads[j].options
       /\ <<"readDataFormat", <<"A">>>> \in loads[j].options
====
